---------------------------- MODULE Spec2Model ----------------------------
(***************************************************************************)
(* Model of backend/app/main.py: the ConnectionManager (session registry   *)
(* and process-wide adaptive rate limiter) and the /ws/video websocket     *)
(* handler (receive / ping / inactivity loop and its error handlers).      *)
(*                                                                         *)
(* Time is in whole seconds.  request_interval is a fixed-point number in  *)
(* units of 1/Scale seconds, so that the factors 1.5, 2.0 and 0.8 are      *)
(* applied exactly: every received message applies at most one of 1.5 and  *)
(* 0.8, each of which costs at most one decimal digit, and at most         *)
(* MaxFrames messages are received.                                        *)
(***************************************************************************)
EXTENDS Integers, Sequences, FiniteSets

(* ------------------------------ bounds -------------------------------- *)
MaxFrames == 4
PairFrames == 2
MaxElapsed == 20
TickLen == 5
InferTime == 5
StartTime == 300
IdleFor == 295
IdleFrames == 2

RECURSIVE Pow10(_)
Pow10(n) == IF n = 0 THEN 1 ELSE 10 * Pow10(n - 1)

Scale == Pow10(MaxFrames)

(* ------------------------- program constants -------------------------- *)
base_interval == 5 * Scale
max_interval == 15 * Scale
max_consecutive_errors == 3
ping_interval == 15
activity_timeout == 300

Sessions == {1, 2}

FrameKinds == {"valid", "bad_envelope", "bad_image"}
Outcomes == {"text", "empty", "429", "error"}

(* what arrives and what it meets: a frame, the outcome of the API call    *)
(* and the seconds the call takes (read only for a frame that reaches it)  *)
Arrivals ==
    {<<"valid", o, d>> : o \in Outcomes, d \in {0, InferTime}}
        \cup {<<f, "text", 0>> : f \in FrameKinds \ {"valid"}}

VARIABLES
    now,                 \* time.time()
    active_connections,  \* ConnectionManager.active_connections
    last_request_time,   \* ConnectionManager.last_request_time
    request_interval,    \* ConnectionManager.request_interval (1/Scale s)
    consecutive_errors,  \* ConnectionManager.consecutive_errors
    pc,                  \* per handler: where websocket_endpoint stands
    last_ping,           \* per handler: local last_ping
    last_activity,       \* per handler: local last_activity
    wait_start,          \* per handler: when the pending wait_for began
    current_time,        \* per handler: local current_time, held over a ping
    response,            \* per handler: what process_frame returned
    transport,           \* per connection: "up" or "down"
    closed,              \* per connection: websocket.close(1000) was sent
    unanswered,          \* per connection: inbound messages minus replies
    pings_since,         \* per connection: pings since last_activity
    frames_left,         \* inbound messages the clients will still send
    run                  \* length of the current run of overloaded requests

limiter_vars == <<last_request_time, request_interval, consecutive_errors>>
handler_vars == <<pc, last_ping, last_activity, wait_start, current_time,
                  response>>
wire_vars == <<transport, closed, unanswered, pings_since>>
vars == <<now, active_connections, limiter_vars, handler_vars, wire_vars,
          frames_left, run>>

Min(a, b) == IF a < b THEN a ELSE b
Max(a, b) == IF a > b THEN a ELSE b

(* x * (num / den) on fixed-point numbers *)
Times(x, num, den) == (x * num) \div den

(* ------------------------- the rate limiter --------------------------- *)
Limiter == [t |-> last_request_time, iv |-> request_interval,
            ce |-> consecutive_errors]

(* the rate check against the base interval instead of the one in force *)
RateLimited_Base(lim, ct) == (ct - lim.t) * Scale < base_interval

(* line 99: current_time - self.last_request_time < self.request_interval *)
RateLimited(lim, ct) == (ct - lim.t) * Scale < lim.iv

(* a rejected frame that never widens the interval *)
Reject_Never(lim) == lim

(* a rejected frame that widens the interval whatever the error count *)
Reject_Always(lim) == [lim EXCEPT !.iv = Min(Times(@, 3, 2), max_interval)]

(* lines 100-102: the rejected frame *)
Reject(lim) ==
    [lim EXCEPT !.iv = IF lim.ce > 0 THEN Min(Times(@, 3, 2), max_interval)
                       ELSE @]

(* lines 105-108: the admitted frame *)
Admit(lim, ct) ==
    [lim EXCEPT !.iv = IF lim.ce = 0 /\ lim.iv > base_interval
                       THEN Max(Times(@, 4, 5), base_interval)
                       ELSE @,
                !.t = ct]

(* the doubling without its cap of 15 seconds *)
OnOverloaded_NoCap(lim) ==
    LET ce1 == lim.ce + 1 IN
    [lim EXCEPT !.ce = ce1,
                !.iv = IF ce1 >= max_consecutive_errors THEN Times(@, 2, 1)
                       ELSE @]

(* the doubling one error late: > for >= *)
OnOverloaded_Late(lim) ==
    LET ce1 == lim.ce + 1 IN
    [lim EXCEPT !.ce = ce1,
                !.iv = IF ce1 > max_consecutive_errors
                       THEN Min(Times(@, 2, 1), max_interval)
                       ELSE @]

(* lines 174-183: the API raised an error whose text contains "429" *)
OnOverloaded(lim) ==
    LET ce1 == lim.ce + 1 IN
    [lim EXCEPT !.ce = ce1,
                !.iv = IF ce1 >= max_consecutive_errors
                       THEN Min(Times(@, 2, 1), max_interval)
                       ELSE IF ce1 = 0 THEN base_interval ELSE @]

(* another error that also puts the interval back to its base *)
OnOtherError_Reset(lim) == [lim EXCEPT !.ce = 0, !.iv = base_interval]

(* lines 184-186: the API raised any other error *)
OnOtherError(lim) == [lim EXCEPT !.ce = 0]

(* lines 153-168: the API call returned *)
OnSuccess(lim) == lim

(* lines 110-132: parsing and decoding the frame; what process_frame then  *)
(* returns, or "image" when the image bytes were decoded                   *)
Decode(frame) ==
    CASE frame = "bad_envelope" -> "system_error"   \* ValueError, line 188
      [] frame = "bad_image" -> "decode_error"      \* line 132
      [] OTHER -> "image"

(* process_frame: the limiter after the call, the value returned ("None"   *)
(* for the skipped frame) and whether model.generate_content was called    *)
ProcessFrame(lim, ct, frame, outcome) ==
    IF RateLimited(lim, ct)
    THEN [lim |-> Reject(lim), ret |-> "None", called |-> FALSE]
    ELSE LET a == Admit(lim, ct)
             d == Decode(frame)
         IN  IF d # "image"
             THEN [lim |-> a, ret |-> d, called |-> FALSE]
             ELSE CASE outcome = "text" ->
                         [lim |-> OnSuccess(a), ret |-> "text", called |-> TRUE]
                    [] outcome = "empty" ->
                         [lim |-> OnSuccess(a), ret |-> "empty_response",
                          called |-> TRUE]
                    [] outcome = "429" ->
                         [lim |-> OnOverloaded(a), ret |-> "busy",
                          called |-> TRUE]
                    [] OTHER ->
                         [lim |-> OnOtherError(a), ret |-> "api_error",
                          called |-> TRUE]

(* ---------------------------- the registry ---------------------------- *)
RECURSIVE RemoveFirst(_, _)
RemoveFirst(seq, x) ==
    IF seq = <<>> THEN <<>>
    ELSE IF Head(seq) = x THEN Tail(seq)
    ELSE <<Head(seq)>> \o RemoveFirst(Tail(seq), x)

InRegistry(s) == \E i \in 1 .. Len(active_connections) : active_connections[i] = s

(* ------------------------------ messages ------------------------------ *)
Message(type, about) == [type |-> type, about |-> about]

(* the message each send_text of the handler puts on the wire: its "type"  *)
(* and what its text reports                                               *)
Outgoing(s) ==
    CASE pc[s] = "send256" -> Message("response", response[s])  \* 251-256
      [] pc[s] = "send267" -> Message("error", "None")          \* 267-271
      [] pc[s] = "send285" -> Message("error", "loop_error")    \* 285-288
      [] pc[s] = "send260" -> Message("error", "send_error")    \* 260-264
      [] pc[s] = "send274" -> Message("error", "frame_error")   \* 274-278
      [] pc[s] = "send296" -> Message("error", "socket_error")  \* 296-299
      [] pc[s] = "ping231" -> Message("ping", "none")           \* 231
      [] OTHER -> Message("none", "none")

(* the sends that answer an inbound message, and the sends of the          *)
(* handlers a failed send passes through                                   *)
SendSites == {"send256", "send267", "send285"}
ErrorSites == {"send260", "send274", "send296"}

(* websocket.send_text and websocket.close raise iff the transport is down *)
SendOk(s) == transport[s] = "up"

(* ------------------------------- Init --------------------------------- *)
InitLimiter ==
    /\ last_request_time = 0
    /\ request_interval = base_interval
    /\ consecutive_errors = 0
    /\ run = 0

(* Two clients are about to connect and will send PairFrames messages      *)
(* between them, or session 2 has come and gone (its client left before it *)
(* sent anything) and the client of session 1 will send MaxFrames.         *)
Init ==
    /\ now = StartTime
    /\ active_connections = <<>>
    /\ InitLimiter
    /\ \E gone \in SUBSET {2} :
          /\ frames_left = IF gone = {} THEN PairFrames ELSE MaxFrames
          /\ pc = [s \in Sessions |-> IF s \in gone THEN "done" ELSE "start"]
          /\ transport = [s \in Sessions |->
                             IF s \in gone THEN "down" ELSE "up"]
    /\ last_ping = [s \in Sessions |-> 0]
    /\ last_activity = [s \in Sessions |-> 0]
    /\ wait_start = [s \in Sessions |-> 0]
    /\ current_time = [s \in Sessions |-> 0]
    /\ response = [s \in Sessions |-> "None"]
    /\ closed = [s \in Sessions |-> FALSE]
    /\ unanswered = [s \in Sessions |-> 0]
    /\ pings_since = [s \in Sessions |-> 0]

(* The state IdleFor seconds after session 1 connected at time             *)
(* StartTime - IdleFor and sent nothing: it was pinged every ping_interval *)
(* seconds and waits for a message.                                        *)
InitIdle ==
    LET c == StartTime - IdleFor
        p == c + ping_interval * (IdleFor \div ping_interval)
        idle(s) == s = 1
    IN  /\ now = StartTime
        /\ active_connections = <<1>>
        /\ InitLimiter
        /\ frames_left = IdleFrames
        /\ pc = [s \in Sessions |-> IF idle(s) THEN "recv" ELSE "start"]
        /\ last_ping = [s \in Sessions |-> IF idle(s) THEN p ELSE 0]
        /\ last_activity = [s \in Sessions |-> IF idle(s) THEN c ELSE 0]
        /\ wait_start = [s \in Sessions |-> IF idle(s) THEN p ELSE 0]
        /\ current_time = [s \in Sessions |-> 0]
        /\ response = [s \in Sessions |-> "None"]
        /\ transport = [s \in Sessions |-> "up"]
        /\ closed = [s \in Sessions |-> FALSE]
        /\ unanswered = [s \in Sessions |-> 0]
        /\ pings_since = [s \in Sessions |->
                             IF idle(s) THEN IdleFor \div ping_interval ELSE 0]

(* ------------------------------ actions ------------------------------- *)
(* The handlers are coroutines of one event loop: a handler runs from one  *)
(* await to the next with no other handler in between, and is suspended in *)
(* wait_for (pc "recv"), in a send_text (pc names the line of the send) or *)
(* in close (pc "close226") for as long as the client takes, while the     *)
(* other handlers and the clock go on.                                     *)
Waiting(s) == pc[s] = "recv"

Due(s) == wait_start[s] + ping_interval

(* The clock.  A wait_for that is due fires before the clock moves on: it  *)
(* advances by TickLen seconds, or to the next timeout if that is sooner.  *)
TickStep ==
    LET rem == {Due(s) - now : s \in {x \in Sessions : Waiting(x)}}
    IN  IF \E r \in rem : r < TickLen
        THEN CHOOSE r \in rem : \A q \in rem : r <= q
        ELSE TickLen

Tick ==
    /\ \A s \in Sessions : Waiting(s) => now < Due(s)
    /\ now + TickStep <= StartTime + MaxElapsed
    /\ now' = now + TickStep
    /\ UNCHANGED <<active_connections, limiter_vars, handler_vars, wire_vars,
                   frames_left, run>>

(* the connection fails (the client leaves): every later send_text, close  *)
(* and receive_text on it raises                                           *)
After(s, lost) == IF lost THEN [transport EXCEPT ![s] = "down"] ELSE transport

(* the handler goes on to another await with its locals as they are *)
Goto(s, to) ==
    /\ pc' = [pc EXCEPT ![s] = to]
    /\ UNCHANGED <<last_ping, last_activity, wait_start, current_time,
                   response, unanswered, pings_since>>

(* the handler is suspended at the await named to *)
Hold(s, to, la, lp, ws, ct, un, pings) ==
    /\ pc' = [pc EXCEPT ![s] = to]
    /\ last_activity' = [last_activity EXCEPT ![s] = la]
    /\ last_ping' = [last_ping EXCEPT ![s] = lp]
    /\ wait_start' = [wait_start EXCEPT ![s] = ws]
    /\ current_time' = [current_time EXCEPT ![s] = ct]
    /\ response' = [response EXCEPT ![s] = "None"]
    /\ unanswered' = [unanswered EXCEPT ![s] = un]
    /\ pings_since' = [pings_since EXCEPT ![s] = pings]

(* the handler returns or raises: its locals are gone *)
Exit(s, to) == Hold(s, to, 0, 0, 0, 0, 0, 0)

(* lines 92-93, called at line 292 or 302:                                 *)
(* self.active_connections.remove(websocket), which raises ValueError when *)
(* the websocket is not in the list                                        *)
Disconnect(s) ==
    /\ active_connections' = RemoveFirst(active_connections, s)
    /\ Exit(s, IF InRegistry(s) THEN "done" ELSE "raised")
    /\ UNCHANGED closed

(* lines 235-239: the timed receive starts *)
Wait(s, la, lp, un, pings) == Hold(s, "recv", la, lp, now, 0, un, pings)

(* the inactivity check one second early: >= for > *)
TimedOut_Early(la) == now - la >= activity_timeout

(* line 224 *)
TimedOut(la) == now - la > activity_timeout

(* the ping check with > for >= *)
PingDue_Strict(lp) == now - lp > ping_interval

(* line 230 *)
PingDue(lp) == now - lp >= ping_interval

(* lines 222-239, the top of the loop up to its first await: the close of  *)
(* line 226, the ping of line 231 (current_time is the time of line 223),  *)
(* or the timed receive.  la and lp are the handler's last_activity and    *)
(* last_ping, un its unanswered messages, pings its pings.                 *)
LoopTop(s, la, lp, un, pings) ==
    IF TimedOut(la) THEN Hold(s, "close226", la, lp, 0, now, un, pings)
    ELSE IF PingDue(lp) THEN Hold(s, "ping231", la, lp, 0, now, un, pings)
    ELSE Wait(s, la, lp, un, pings)

(* lines 88-90, 213-217: accept has completed; manager.connect appends,    *)
(* the handler sets its locals and reaches the loop's top                  *)
Connect(s) ==
    /\ pc[s] = "start"
    /\ active_connections' = Append(active_connections, s)
    /\ LoopTop(s, now, now, 0, 0)
    /\ UNCHANGED <<now, limiter_vars, transport, closed, frames_left, run>>

(* lines 280-282: asyncio.TimeoutError, and the loop's top again *)
ReceiveTimeout(s) ==
    /\ pc[s] = "recv"
    /\ now >= Due(s)
    /\ LoopTop(s, last_activity[s], last_ping[s], unanswered[s],
               pings_since[s])
    /\ UNCHANGED <<now, active_connections, limiter_vars, transport, closed,
                   frames_left, run>>

(* lines 226-227 and 231-232: the close or the ping of the loop's top      *)
(* completes (break, or last_ping = current_time and the timed receive),   *)
(* or raises into the handler of line 283                                  *)
LoopSend(s, lost) ==
    /\ pc[s] \in {"close226", "ping231"}
    /\ transport' = After(s, lost)
    /\ IF lost
       THEN Goto(s, "send285") /\ UNCHANGED closed
       ELSE IF pc[s] = "close226"
       THEN closed' = [closed EXCEPT ![s] = TRUE] /\ Exit(s, "done")
       ELSE /\ Wait(s, last_activity[s], current_time[s], unanswered[s],
                    pings_since[s] + 1)
            /\ UNCHANGED closed
    /\ UNCHANGED <<now, active_connections, limiter_vars, frames_left, run>>

(* the run of consecutive overloaded requests that began with              *)
(* consecutive_errors = 0 and request_interval = base_interval             *)
NextRun(lim, ret) ==
    IF ret = "busy" /\ (run >= 1 \/ (lim.ce = 0 /\ lim.iv = base_interval))
    THEN run + 1
    ELSE 0

(* lines 236-246: a text message arrives; last_activity = time.time() and  *)
(* process_frame runs without a suspension point, the API call taking d    *)
(* seconds, up to the await of line 256 or 267                             *)
ReceiveFrame(s, frame, outcome, d) ==
    /\ pc[s] = "recv"
    /\ frames_left > 0
    /\ LET r == ProcessFrame(Limiter, now, frame, outcome)
           dt == IF r.called THEN d ELSE 0
       IN  /\ now + dt <= StartTime + MaxElapsed
           /\ now' = now + dt
           /\ last_request_time' = r.lim.t
           /\ request_interval' = r.lim.iv
           /\ consecutive_errors' = r.lim.ce
           /\ run' = NextRun(Limiter, r.ret)
           /\ response' = [response EXCEPT ![s] = r.ret]
           /\ pc' = [pc EXCEPT ![s] = IF r.ret = "None" THEN "send267"
                                      ELSE "send256"]
    /\ last_activity' = [last_activity EXCEPT ![s] = now]
    /\ frames_left' = frames_left - 1
    /\ unanswered' = [unanswered EXCEPT ![s] = @ + 1]
    /\ pings_since' = [pings_since EXCEPT ![s] = 0]
    /\ UNCHANGED <<active_connections, last_ping, wait_start, current_time,
                   transport, closed>>

(* lines 236-239, 283: receive_text raises on a message that is not text;  *)
(* the connection stays up                                                 *)
ReceiveBad(s) ==
    /\ pc[s] = "recv"
    /\ frames_left > 0
    /\ frames_left' = frames_left - 1
    /\ unanswered' = [unanswered EXCEPT ![s] = @ + 1]
    /\ pc' = [pc EXCEPT ![s] = "send285"]
    /\ UNCHANGED <<now, active_connections, limiter_vars, last_ping,
                   last_activity, wait_start, current_time, response,
                   transport, closed, pings_since, run>>

(* lines 236-239, 283-285: the client has left; receive_text raises        *)
(* WebSocketDisconnect, which the handler of line 283 catches              *)
ReceiveDisconnect(s) ==
    /\ pc[s] = "recv"
    /\ transport' = After(s, TRUE)
    /\ Goto(s, "send285")
    /\ UNCHANGED <<now, active_connections, limiter_vars, closed, frames_left,
                   run>>

(* lines 290-296: the send_text of line 285 has raised out of the loop,    *)
(* as WebSocketDisconnect (line 290: manager.disconnect) or as another     *)
(* exception (line 293: the send_text of line 296)                         *)
Outer(s) ==
    \/ Disconnect(s)
    \/ Goto(s, "send296") /\ UNCHANGED <<active_connections, closed>>

(* a reply that ends the session when it reports a failure *)
Reply_CloseOnFailure(s, lost, catch) ==
    /\ SendOk(s)
    /\ transport' = After(s, lost)
    /\ IF lost
       THEN IF catch = "outer"
            THEN Outer(s)
            ELSE Goto(s, catch) /\ UNCHANGED <<active_connections, closed>>
       ELSE /\ IF Outgoing(s).type = "error"
               THEN Hold(s, "close226", last_activity[s], last_ping[s], 0,
                         now, unanswered[s] - 1, pings_since[s])
               ELSE LoopTop(s, last_activity[s], last_ping[s],
                            unanswered[s] - 1, pings_since[s])
            /\ UNCHANGED <<active_connections, closed>>
    /\ UNCHANGED <<now, limiter_vars, frames_left, run>>

(* a send_text that answers a message: it completes and the handler is at  *)
(* the loop's top, or the connection has failed and it raises into the     *)
(* handler named by catch                                                  *)
Reply(s, lost, catch) ==
    /\ SendOk(s)
    /\ transport' = After(s, lost)
    /\ IF lost
       THEN IF catch = "outer"
            THEN Outer(s)
            ELSE Goto(s, catch) /\ UNCHANGED <<active_connections, closed>>
       ELSE /\ LoopTop(s, last_activity[s], last_ping[s], unanswered[s] - 1,
                       pings_since[s])
            /\ UNCHANGED <<active_connections, closed>>
    /\ UNCHANGED <<now, limiter_vars, frames_left, run>>

(* lines 249-259: the value process_frame returned goes out as "response" *)
SendResponse(s, lost) ==
    /\ pc[s] = "send256"
    /\ Reply(s, lost, "send260")

(* a skipped frame that gets no message at all *)
SendRateLimited_Silent(s, lost) ==
    /\ pc[s] = "send267"
    /\ ~lost
    /\ LoopTop(s, last_activity[s], last_ping[s], unanswered[s],
               pings_since[s])
    /\ UNCHANGED <<now, active_connections, limiter_vars, transport, closed,
                   frames_left, run>>

(* lines 265-272: process_frame returned None *)
SendRateLimited(s, lost) ==
    /\ pc[s] = "send267"
    /\ Reply(s, lost, "send274")

(* lines 283-288: except Exception inside the loop *)
SendLoopError(s, lost) ==
    /\ pc[s] = "send285"
    /\ Reply(s, lost, "outer")

(* manager.disconnect at line 292 and again at line 302 *)
Unwind_Twice(s) ==
    /\ ~SendOk(s)
    /\ CASE pc[s] = "send260" ->
              Goto(s, "send274") /\ UNCHANGED <<active_connections, closed>>
         [] pc[s] = "send274" ->
              Goto(s, "send285") /\ UNCHANGED <<active_connections, closed>>
         [] pc[s] = "send285" ->
              /\ active_connections' = RemoveFirst(active_connections, s)
              /\ Goto(s, "send296")
              /\ UNCHANGED closed
         [] pc[s] = "send296" -> Disconnect(s)
         [] OTHER -> FALSE
    /\ UNCHANGED <<now, limiter_vars, transport, frames_left, run>>

(* leaving the handler without manager.disconnect *)
Unwind_NoCleanup(s) ==
    /\ ~SendOk(s)
    /\ CASE pc[s] = "send260" ->
              Goto(s, "send274") /\ UNCHANGED <<active_connections, closed>>
         [] pc[s] = "send274" ->
              Goto(s, "send285") /\ UNCHANGED <<active_connections, closed>>
         [] pc[s] = "send285" ->
              Goto(s, "send296") /\ UNCHANGED <<active_connections, closed>>
         [] pc[s] = "send296" ->
              Exit(s, "done") /\ UNCHANGED <<active_connections, closed>>
         [] OTHER -> FALSE
    /\ UNCHANGED <<now, limiter_vars, transport, frames_left, run>>

(* lines 260, 274, 285, 296 with the connection gone: the send_text raises *)
(* into the next handler (lines 272, 283, 290 or 293), and that of line    *)
(* 296 into 'except: pass' and manager.disconnect (line 302)               *)
Unwind(s) ==
    /\ ~SendOk(s)
    /\ CASE pc[s] = "send260" ->
              Goto(s, "send274") /\ UNCHANGED <<active_connections, closed>>
         [] pc[s] = "send274" ->
              Goto(s, "send285") /\ UNCHANGED <<active_connections, closed>>
         [] pc[s] = "send285" -> Outer(s)
         [] pc[s] = "send296" -> Disconnect(s)
         [] OTHER -> FALSE
    /\ UNCHANGED <<now, limiter_vars, transport, frames_left, run>>

Next ==
    \/ Tick
    \/ \E s \in Sessions :
          \/ Connect(s)
          \/ ReceiveTimeout(s)
          \/ \E a \in Arrivals : ReceiveFrame(s, a[1], a[2], a[3])
          \/ ReceiveBad(s)
          \/ ReceiveDisconnect(s)
          \/ \E lost \in BOOLEAN : SendResponse(s, lost)
          \/ \E lost \in BOOLEAN : SendRateLimited(s, lost)
          \/ \E lost \in BOOLEAN : SendLoopError(s, lost)
          \/ \E lost \in BOOLEAN : LoopSend(s, lost)
          \/ Unwind(s)

Spec == Init /\ [][Next]_vars

SpecIdle == InitIdle /\ [][Next]_vars

(* The event loop: time passes, a wait_for that is due times out, and a    *)
(* send_text or close that was started completes or raises.                *)
HandlerStep(s) ==
    \/ ReceiveTimeout(s)
    \/ Unwind(s)
    \/ \E lost \in BOOLEAN :
          \/ SendResponse(s, lost)
          \/ SendRateLimited(s, lost)
          \/ SendLoopError(s, lost)
          \/ LoopSend(s, lost)

EventLoop == WF_vars(Tick) /\ \A s \in Sessions : WF_vars(HandlerStep(s))

SpecIdleFair == InitIdle /\ [][Next]_vars /\ EventLoop

(* ------------------------------- claims ------------------------------- *)
AtSend256(s, ret) == pc[s] = "send256" /\ response[s] = ret

(* process_frame has run for a message of session s and returned ret *)
Returned(s, ret) ==
    pc[s] = "recv" /\ pc'[s] = "send256" /\ response'[s] = ret

Ended == {"done", "raised"}

(* the awaits of the loop's top *)
TopSites == {"close226", "ping231"}

(* C1: at all times base_interval <= request_interval <= 15 seconds.       *)
C1_IntervalBounded ==
    /\ base_interval <= request_interval
    /\ request_interval <= max_interval

(* the doubling of a fourth overloaded request in a row was capped *)
C1_Witness ==
    /\ request_interval = max_interval
    /\ consecutive_errors > max_consecutive_errors

(* C2, as the specification states it: when an admitted request's API call *)
(* succeeds (process_frame returns the text, or the notice of an empty     *)
(* answer), consecutive_errors is 0 afterwards.                            *)
C2_SuccessResetsErrors ==
    [][\A s \in Sessions :
          (Returned(s, "text") \/ Returned(s, "empty_response"))
              => consecutive_errors' = 0]_vars

(* C3: starting from consecutive_errors = 0 and request_interval =         *)
(* base_interval, a run of admitted requests that each fail with a 429     *)
(* error counts 1, 2, 3, ...; the interval stays at the base after the     *)
(* first two, is doubled to 10 seconds by the third, and is doubled and    *)
(* capped to 15 seconds by every further one.                              *)
C3_ThreeOverloadsDouble ==
    /\ run >= 1 => consecutive_errors = run
    /\ run \in {1, 2} => request_interval = base_interval
    /\ run = 3 => request_interval = 2 * base_interval
    /\ run >= 4 => request_interval = max_interval

(* four overloaded requests in a row *)
C3_Witness == run = 4 /\ request_interval = max_interval

(* C4: when an admitted request fails with an error that is not a 429,     *)
(* the report of that failure leaves request_interval as the admission     *)
(* left it and sets consecutive_errors to 0, and reporting the same        *)
(* failure once more changes nothing.                                      *)
C4_OtherErrorKeepsInterval ==
    [][\A s \in Sessions :
          Returned(s, "api_error")
              => LET before == Admit(Limiter, now)
                     after == [t |-> last_request_time',
                               iv |-> request_interval',
                               ce |-> consecutive_errors']
                 IN  /\ after.iv = before.iv
                     /\ after.ce = 0
                     /\ after.t = now
                     /\ OnOtherError(after) = after]_vars

(* such a failure met a widened interval, which it left widened *)
C4_Witness ==
    \E s \in Sessions :
        /\ AtSend256(s, "api_error")
        /\ last_request_time = last_activity[s]
        /\ request_interval > base_interval
        /\ consecutive_errors = 0

(* C5: a frame that arrives less than request_interval after the last      *)
(* admitted one, and no other, is skipped: no API call is made for it      *)
(* whatever it holds, last_request_time and consecutive_errors stay,       *)
(* request_interval does not shrink and with consecutive_errors = 0 does   *)
(* not change, and once its notice is sent, or found undeliverable, the    *)
(* frame is gone: the handler leaves the notice without touching the       *)
(* limiter.                                                                *)
C5_RejectedFrame ==
    [][\A s \in Sessions :
          /\ (pc[s] = "recv" /\ pc'[s] \in {"send256", "send267"})
                => (pc'[s] = "send267" <=> RateLimited(Limiter, now))
          /\ (pc[s] = "recv" /\ pc'[s] = "send267")
                => /\ \A a \in Arrivals :
                         ~ProcessFrame(Limiter, now, a[1], a[2]).called
                   /\ now' = now
                   /\ last_request_time' = last_request_time
                   /\ consecutive_errors' = consecutive_errors
                   /\ request_interval' >= request_interval
                   /\ consecutive_errors = 0
                         => request_interval' = request_interval
          /\ (pc[s] = "send267" /\ pc'[s] # "send267")
                => /\ UNCHANGED limiter_vars
                   /\ \/ pc'[s] = "send274" /\ transport'[s] = "down"
                      \/ /\ pc'[s] \in {"recv"} \cup TopSites
                         /\ unanswered'[s] = 0]_vars

(* a frame was skipped right after an admitted one, with no error counted *)
C5_Witness ==
    \E s \in Sessions :
        /\ pc[s] = "send267"
        /\ consecutive_errors = 0
        /\ request_interval = base_interval
        /\ now - last_request_time < 5

(* C6, as the specification states it: whichever way a handler has ended,  *)
(* its websocket is no longer in active_connections.                       *)
C6_EndedNotRegistered ==
    \A s \in Sessions : pc[s] \in Ended => ~InRegistry(s)

Failures == {"None", "system_error", "decode_error", "empty_response", "busy",
             "api_error", "loop_error"}

(* C7, as the specification states it: every message that reports a        *)
(* failure (bad envelope, undecodable image, skipped frame, overloaded or  *)
(* failed API call, empty answer) goes out with type "error", and type     *)
(* "response" carries only the text of a successful analysis.              *)
C7_FailuresSentAsError ==
    \A s \in Sessions :
        pc[s] \in SendSites
            => LET m == Outgoing(s)
               IN  /\ m.about \in Failures => m.type = "error"
                   /\ m.type = "response" => m.about = "text"

(* C8: when a message that answers a frame or reports a failure has        *)
(* reached the client, the handler is at the loop's top with the session   *)
(* registered and not closed: it starts the next timed receive, or the     *)
(* ping that precedes it, or, only if the session has been inactive for    *)
(* more than activity_timeout, the close.  A handler ends only through     *)
(* manager.disconnect with its connection gone (the client left or a send  *)
(* failed), or when that close completes.                                  *)
C8_RecoverableErrorsKeepOpen ==
    [][\A s \in Sessions :
          /\ (pc[s] \in SendSites /\ pc'[s] # pc[s] /\ transport'[s] = "up")
                => /\ pc'[s] \in {"recv"} \cup TopSites
                   /\ pc'[s] = "recv" => wait_start'[s] = now
                   /\ \E i \in 1 .. Len(active_connections') :
                          active_connections'[i] = s
                   /\ ~closed'[s]
          /\ (pc[s] # "close226" /\ pc'[s] = "close226")
                => TimedOut(last_activity[s])
          /\ (pc[s] \notin Ended /\ pc'[s] \in Ended)
                => \/ transport'[s] = "down" /\ closed'[s] = closed[s]
                   \/ pc[s] = "close226" /\ closed'[s]]_vars

(* the API was overloaded for the frame this session sent at this instant, *)
(* the client has the message and the session waits for its next frame     *)
C8_Witness ==
    \E s \in Sessions :
        /\ pc[s] = "recv"
        /\ unanswered[s] = 0
        /\ last_activity[s] = now
        /\ last_request_time = now
        /\ consecutive_errors > 0
        /\ InRegistry(s)
        /\ ~closed[s]

(* C9: while its connection is up a handler has at most one inbound        *)
(* message in hand: it waits for the next one, pings or closes only when   *)
(* every message it received has had its one reply, and it is at a send    *)
(* that answers exactly when one message is unanswered.                    *)
C9_OneReplyPerFrame ==
    \A s \in Sessions :
        /\ unanswered[s] \in {0, 1}
        /\ pc[s] \in {"recv"} \cup TopSites => unanswered[s] = 0
        /\ (pc[s] \in SendSites /\ transport[s] = "up") => unanswered[s] = 1

(* one session received every message of the run and answered each *)
C9_Witness ==
    /\ frames_left = 0
    /\ \E s \in Sessions :
          /\ pc[s] = "recv"
          /\ unanswered[s] = 0
          /\ \A x \in Sessions \ {s} : pc[x] \in {"start", "done"}

(* C10, as the specification states it: a session that has been silent for *)
(* 16 seconds has been sent exactly one ping since its last frame: at      *)
(* least one once 16 seconds have passed, at most one until then.          *)
C10_ExactlyOnePing ==
    \A s \in Sessions :
        pc[s] = "recv"
            => /\ now - last_activity[s] >= 16 => pings_since[s] >= 1
               /\ now - last_activity[s] <= 16 => pings_since[s] <= 1

(* a liveness check of session s: its handler comes to the loop's top, on  *)
(* connecting, when a timed receive has timed out, or when a reply has     *)
(* been delivered                                                          *)
LivenessCheck(s) ==
    /\ pc[s] \in {"start", "recv"} \cup SendSites
    /\ pc'[s] \in {"recv"} \cup TopSites
    /\ (pc[s] = "recv" /\ pc'[s] = "recv") => wait_start'[s] # wait_start[s]

(* C10, amended: at every liveness check the handler starts the close if   *)
(* the session has timed out, and otherwise starts a ping exactly when     *)
(* now - last_ping >= ping_interval and the timed receive exactly when     *)
(* not; a ping is started nowhere else; when it has been sent, however     *)
(* long that took, last_ping is set to the time of that check and the      *)
(* timed receive starts; so between two pings lies a whole timed receive,  *)
(* and a session that has been silent for at most 16 seconds has been sent *)
(* at most two pings since its last frame.                                 *)
C10_PingRule ==
    [][\A s \in Sessions :
          /\ LivenessCheck(s)
                => LET idle == now - last_activity'[s] > activity_timeout
                       due == now - last_ping'[s] >= ping_interval
                   IN  /\ now' = now
                       /\ pc'[s] = "close226" <=> idle
                       /\ pc'[s] = "ping231" <=> (~idle /\ due)
                       /\ pc'[s] = "recv" <=> (~idle /\ ~due)
                       /\ pc'[s] = "ping231" => current_time'[s] = now
                       /\ pc'[s] = "recv" => wait_start'[s] = now
                       /\ pc[s] # "start"
                             => /\ last_ping'[s] = last_ping[s]
                                /\ pings_since'[s] = pings_since[s]
          /\ (pc[s] # "ping231" /\ pc'[s] = "ping231") => LivenessCheck(s)
          /\ pings_since'[s] = pings_since[s] + 1
                => /\ pc[s] = "ping231"
                   /\ pc'[s] = "recv"
                   /\ last_ping'[s] = current_time[s]
                   /\ wait_start'[s] = now
          /\ (pc[s] = "ping231" /\ pc'[s] = "recv")
                => pings_since'[s] = pings_since[s] + 1
          /\ (pc'[s] = "recv" /\ now' - last_activity'[s] <= 16)
                => pings_since'[s] <= 2]_vars

(* two pings within 16 seconds of the last frame *)
C10_Witness ==
    \E s \in Sessions :
        /\ pc[s] = "recv"
        /\ pings_since[s] = 2
        /\ now - last_activity[s] <= 16

(* C11, as the specification states it, for the reset of last_activity:    *)
(* a handler that holds an unanswered inbound message set last_activity    *)
(* when the message arrived, after the timed receive it came in had begun. *)
C11_EveryMessageIsActivity ==
    [][\A s \in Sessions :
          (pc[s] = "recv" /\ unanswered'[s] = unanswered[s] + 1)
              => last_activity'[s] = now]_vars

(* C11, amended: the close is started only at a loop top with              *)
(* now - last_activity > activity_timeout, and when it has been sent the   *)
(* handler has ended and sends nothing afterwards; a text message sets     *)
(* last_activity to the time it arrived, while a ping, and a message on    *)
(* which receive_text raises, leave it as it was; and a session that is    *)
(* waiting with more than activity_timeout since its last_activity is,     *)
(* when that timed receive ends within the run, eventually closed by the   *)
(* server, unless its connection fails or a text message arrives.          *)
C11_IdleClosed ==
    /\ [][\A s \in Sessions :
             /\ (pc[s] # "close226" /\ pc'[s] = "close226")
                   => /\ now - last_activity[s] > activity_timeout
                      /\ now' = now
             /\ (closed'[s] /\ ~closed[s])
                   => /\ pc[s] = "close226"
                      /\ transport'[s] = "up"
                      /\ pc'[s] = "done"
             /\ pc[s] \in Ended
                   => /\ pc'[s] = pc[s]
                      /\ pings_since'[s] = pings_since[s]
                      /\ unanswered'[s] = unanswered[s]
             /\ (pc[s] = "recv" /\ pc'[s] \in {"send256", "send267"})
                   => last_activity'[s] = now
             /\ (pc[s] = "recv" /\ pc'[s] = "send285")
                   => last_activity'[s] = last_activity[s]
             /\ pings_since'[s] = pings_since[s] + 1
                   => last_activity'[s] = last_activity[s]]_vars
    /\ \A s \in Sessions :
          (/\ pc[s] = "recv"
           /\ last_activity[s] = StartTime - IdleFor
           /\ TimedOut(last_activity[s])
           /\ Due(s) <= StartTime + MaxElapsed)
              ~> \/ closed[s]
                 \/ transport[s] = "down"
                 \/ last_activity[s] > StartTime - IdleFor

(* the server closed an idle session whose connection was up *)
C11_Witness ==
    \E s \in Sessions : closed[s] /\ pc[s] = "done" /\ transport[s] = "up"

(* C12, as the specification states it: once a receive has raised          *)
(* anything but the timeout (the handler is at the send of line 285), or a *)
(* send has failed, the loop is over: the handler does not go back to      *)
(* the loop's top.                                                         *)
C12_FailureIsFatal ==
    [][\A s \in Sessions :
          pc[s] = "send285" => pc'[s] \notin {"recv"} \cup TopSites]_vars

(* C12, amended: a receive that raises anything but the timeout is         *)
(* answered inside the loop with an error message; if that message is      *)
(* delivered the loop goes on, the session registered and open.  Once the  *)
(* connection itself has failed (the client has left, a send or close      *)
(* raised), the handler never receives, pings or closes again: it goes     *)
(* through the error messages of the handlers the failure passes (lines    *)
(* 260, 274, 285, 296), each of which fails as well, and ends through      *)
(* manager.disconnect, the session out of the registry and no close sent;  *)
(* an ended handler never acts again.                                      *)
C12_ConnectionLossIsFatal ==
    [][\A s \in Sessions :
          /\ (pc[s] = "recv" /\ pc'[s] = "send285" /\ transport'[s] = "up")
                => UNCHANGED active_connections
          /\ (pc[s] = "send285" /\ pc'[s] # pc[s] /\ transport'[s] = "up")
                => /\ pc'[s] \in {"recv"} \cup TopSites
                   /\ \E i \in 1 .. Len(active_connections') :
                          active_connections'[i] = s
                   /\ ~closed'[s]
          /\ transport'[s] = "down"
                => /\ pc'[s] \in ErrorSites \cup {"send285"} \cup Ended
                   /\ closed'[s] = closed[s]
                   /\ pc'[s] \notin Ended
                         => /\ unanswered'[s] = unanswered[s]
                            /\ pings_since'[s] = pings_since[s]
          /\ (transport'[s] = "down" /\ pc[s] \notin Ended /\ pc'[s] \in Ended)
                => /\ pc[s] \in {"send285", "send296"}
                   /\ \E i \in 1 .. Len(active_connections) :
                          active_connections[i] = s
                   /\ \A i \in 1 .. Len(active_connections') :
                          active_connections'[i] # s
          /\ pc[s] \in Ended
                => pc'[s] = pc[s] /\ transport'[s] = transport[s]]_vars

(* the reply to an analysed frame found the connection gone, and the       *)
(* handler has come to the last of the error messages                      *)
C12_Witness ==
    \E s \in Sessions :
        /\ pc[s] = "send296"
        /\ response[s] = "text"
        /\ transport[s] = "down"
        /\ InRegistry(s)

(* C13, as the specification states it: a frame that fails envelope        *)
(* validation or base64 decoding is answered with its error and leaves     *)
(* last_request_time, request_interval and consecutive_errors as they      *)
(* were.                                                                   *)
C13_MalformedLeavesLimiter ==
    [][\A s \in Sessions :
          (Returned(s, "system_error") \/ Returned(s, "decode_error"))
              => UNCHANGED limiter_vars]_vars

(* C14: process_frame runs from its rate check to its return without a     *)
(* suspension point, so whichever sessions send frames, every admission    *)
(* (a frame that gets past line 102) comes at least the request_interval   *)
(* in force, hence at least base_interval, after the admission before it,  *)
(* and sets last_request_time to its own time, which no later frame can be *)
(* admitted against again; nothing else changes last_request_time.         *)
C14_AdmissionsSerialized ==
    [][/\ \A s \in Sessions :
             (pc[s] = "recv" /\ pc'[s] = "send256")
                 => /\ (now - last_request_time) * Scale >= request_interval
                    /\ (now - last_request_time) * Scale >= base_interval
                    /\ last_request_time' = now
                    /\ last_request_time' > last_request_time
       /\ last_request_time' # last_request_time
             => \E s \in Sessions : pc[s] = "recv" /\ pc'[s] = "send256"]_vars

(* two sessions sent a frame at the same instant: one was admitted and its *)
(* reply is on its way, the other is skipped while that reply is pending   *)
C14_Witness ==
    \E s, x \in Sessions :
        /\ s # x
        /\ pc[s] = "send267"
        /\ pc[x] = "send256"
        /\ last_activity[s] = now
        /\ last_activity[x] = now
        /\ last_request_time = now

(* C15, as the specification states it: an admitted request that succeeds  *)
(* while request_interval is above base_interval has multiplied it by 0.8  *)
(* at its admission, not going below base_interval.                        *)
C15_SuccessRelaxes ==
    [][\A s \in Sessions :
          (/\ Returned(s, "text") \/ Returned(s, "empty_response")
           /\ request_interval > base_interval)
              => request_interval'
                     = Max(Times(request_interval, 4, 5), base_interval)]_vars

(* C16, as the specification states it: a skipped frame never changes      *)
(* request_interval.                                                       *)
C16_RejectionNeverWidens ==
    [][\A s \in Sessions :
          (pc[s] = "recv" /\ pc'[s] = "send267")
              => request_interval' = request_interval]_vars

(* C16, amended: a skipped frame leaves consecutive_errors as it was, and  *)
(* multiplies request_interval by 1.5, up to 15 seconds, exactly when      *)
(* consecutive_errors > 0, that is after an admitted request met a 429     *)
(* error that no other error has cleared since; with consecutive_errors =  *)
(* 0 it leaves request_interval as it was.                                 *)
C16_RejectionWidensAfterOverload ==
    [][\A s \in Sessions :
          (pc[s] = "recv" /\ pc'[s] = "send267")
              => /\ consecutive_errors' = consecutive_errors
                 /\ consecutive_errors > 0
                       => request_interval'
                              = Min((request_interval * 3) \div 2, max_interval)
                 /\ consecutive_errors = 0
                       => request_interval' = request_interval]_vars

(* a frame skipped after one overloaded request: 5 seconds became 7.5 *)
C16_Witness ==
    \E s \in Sessions :
        /\ pc[s] = "send267"
        /\ consecutive_errors = 1
        /\ 2 * request_interval = 3 * base_interval

(* C17, as the specification states it: a handler is never kept from its   *)
(* steps by another handler's API call, so the timeout of a timed receive  *)
(* is handled when it is due: no handler is found waiting past the end of  *)
(* its wait_for.                                                           *)
C17_TimeoutsOnTime ==
    \A s \in Sessions : pc[s] = "recv" => now <= Due(s)

(* C18: whatever the sessions do, a websocket is in active_connections at  *)
(* most once; it is there from manager.connect on, as long as its handler  *)
(* runs; manager.disconnect is called only for a websocket that is in the  *)
(* list (list.remove never raises) and by a handler that then ends, so at  *)
(* most once; an ended handler's websocket is out of the list unless the   *)
(* handler ended by the inactivity close.                                  *)
C18_RegistryConsistent ==
    \A s \in Sessions :
        /\ Cardinality({i \in 1 .. Len(active_connections) :
                            active_connections[i] = s}) <= 1
        /\ pc[s] # "raised"
        /\ pc[s] = "start" => ~InRegistry(s)
        /\ pc[s] \notin {"start"} \cup Ended => InRegistry(s)
        /\ pc[s] = "done" => (InRegistry(s) <=> closed[s])

(* one handler is on its way out, its connection gone and its websocket    *)
(* still in the list, while the handler of the other has ended through     *)
(* manager.disconnect                                                      *)
C18_Witness ==
    \E s, x \in Sessions :
        /\ pc[s] = "send296"
        /\ transport[s] = "down"
        /\ pc[x] = "done"
        /\ ~closed[x]
        /\ active_connections = <<s>>
=============================================================================
